---- MODULE Spec2Model ----
(***************************************************************************)
(* Betters POS: the relational store (products, sales, sale_details), the  *)
(* HTTP handlers of server.ts, and the reprint flow, the cart and the      *)
(* checkout of the UI.                                                     *)
(* Currency amounts are integer cents (120.50 is 12050).                   *)
(***************************************************************************)
EXTENDS Integers, Sequences, FiniteSets, TLC

VARIABLES
    products,        \* table products: id -> [name, price, stock, barcode]
    sales,           \* table sales: rows [id, total, date] in rowid order
    sale_details,    \* table sale_details: rows in rowid order
    sqlite_sequence, \* AUTOINCREMENT counters of sales and sale_details
    now,             \* CURRENT_TIMESTAMP, in seconds
    server,          \* "down" | "up" | "crashed": the node process
    txn,             \* the running POST /api/sales handler and its transaction
    last,            \* the response sent last; none while POST /api/sales runs
    ledger,          \* history: the request bodies of the sales answered success
    pr,              \* the print / drawer request whose device.open is pending
                     \* (the model follows one pending connection at a time)
    rp,              \* handleReprint of the UI
    cart,            \* the UI's cart: CartItem[] (a product and a quantity)
    uiProducts,      \* the UI's products state: the catalog it fetched last
    loading,         \* the UI's loading state: GET /api/products is in flight
    hp               \* handlePayment of the UI (the model follows one run at
                     \* a time)

vars == <<products, sales, sale_details, sqlite_sequence, now, server, txn,
          last, ledger, pr, rp, cart, uiProducts, loading, hp>>

ui == <<cart, uiProducts, loading, hp>>

store == <<products, sales, sale_details, sqlite_sequence>>

----------------------------------------------------------------------------
(* Bounds *)

MaxSales == 2
MaxItems == 2
MaxClock == 1
MaxQty == 2

----------------------------------------------------------------------------
(* Seed data and request inputs *)

SeedProducts ==
    <<[name |-> "Impresora Termica 80mm",     price |-> 12050, stock |-> 50,  barcode |-> "8412345678901"],
      [name |-> "Lector de Codigo de Barras", price |-> 4500,  stock |-> 100, barcode |-> "8412345678902"],
      [name |-> "Cajon de Dinero RJ11",       price |-> 6000,  stock |-> 30,  barcode |-> "8412345678903"],
      [name |-> "Monitor Tactil 15.6",        price |-> 25000, stock |-> 20,  barcode |-> "8412345678904"],
      [name |-> "Terminal POS All-in-One",    price |-> 55000, stock |-> 15,  barcode |-> "8412345678905"],
      [name |-> "Rollo Papel Termico 80mm",   price |-> 250,   stock |-> 500, barcode |-> "8412345678906"]>>

\* The line items a cart may carry: the roll of paper of the seed catalog
\* (quantity 3 of stock 500), and more terminals than are in stock (16 of
\* 15) at a price that is not the catalog's.
ItemChoices ==
    { [id |-> 6, quantity |-> 3,  price |-> 250],
      [id |-> 5, quantity |-> 16, price |-> 54000] }

\* A line item of a product id the catalog lacks.
UnknownProduct == [id |-> 7, quantity |-> 3, price |-> 250]

RECURSIVE SeqsUpTo(_, _)
SeqsUpTo(S, n) ==
    IF n = 0 THEN {<<>>}
    ELSE LET shorter == SeqsUpTo(S, n - 1)
         IN  shorter \cup {Append(c, x) : c \in shorter, x \in S}

Carts == SeqsUpTo(ItemChoices, MaxItems)

RECURSIVE CartSum(_)
CartSum(items) ==
    IF items = <<>> THEN 0
    ELSE Head(items).price * Head(items).quantity + CartSum(Tail(items))

\* A request's total: the one consistent with its items, or one that is not.
TotalsFor(items) == {CartSum(items), CartSum(items) + 1}

\* Request bodies of POST /api/sales; a field the caller left out is absent.
SaleBodies ==
    UNION {{[total |-> t, items |-> c] : t \in TotalsFor(c)} : c \in Carts}
        \cup {[items |-> <<>>], [total |-> 0]}
        \cup {[total |-> CartSum(c), items |-> c] :
                 c \in {<<UnknownProduct>>} \cup {<<x, UnknownProduct>> : x \in ItemChoices}}

\* The bodies a checkout sends (handlePayment returns on an empty cart,
\* addToCart keeps one entry per product, and the total is the sum of the
\* items).
CheckoutBodies ==
    {[total |-> CartSum(c), items |-> c] :
        c \in {d \in Carts :
                 /\ d # <<>>
                 /\ \A i, j \in DOMAIN d : i # j => d[i].id # d[j].id}}

SaleIdInputs == 1..(MaxSales + 1)

----------------------------------------------------------------------------
(* The store *)

NoRows == <<>>

Store(p, s, d, q) ==
    [products |-> p, sales |-> s, sale_details |-> d, sqlite_sequence |-> q]

CurrentStore == Store(products, sales, sale_details, sqlite_sequence)

\* A schema step that creates the tables anew.
CreateSchemaAnew(db) ==
    Store(db.products, NoRows, NoRows, [sales |-> 0, sale_details |-> 0])

\* CREATE TABLE IF NOT EXISTS: an existing table keeps its rows.
CreateSchema(db) == db

\* The seed of an empty catalog: six products, ids 1..6.
Seed(db) ==
    IF Len(db.products) = 0
    THEN [db EXCEPT !.products = SeedProducts]
    ELSE db

\* INSERT INTO sales (total) VALUES (?): id from AUTOINCREMENT, date from
\* CURRENT_TIMESTAMP.
InsertSale(db, total, date) ==
    LET id == db.sqlite_sequence.sales + 1
    IN  [db EXCEPT !.sales = Append(@, [id |-> id, total |-> total, date |-> date]),
                   !.sqlite_sequence.sales = id]

\* FOREIGN KEY(product_id) REFERENCES products(id)
ForeignKeyOk(db, item) == item.id \in DOMAIN db.products

\* A line item that takes the catalog's price, not the request's.
InsertDetailCatalogPrice(db, saleId, item) ==
    LET id == db.sqlite_sequence.sale_details + 1
    IN  [db EXCEPT !.sale_details =
                       Append(@, [id |-> id, sale_id |-> saleId,
                                  product_id |-> item.id,
                                  quantity |-> item.quantity,
                                  price |-> db.products[item.id].price]),
                   !.sqlite_sequence.sale_details = id]

\* INSERT INTO sale_details (sale_id, product_id, quantity, price)
InsertDetail(db, saleId, item) ==
    LET id == db.sqlite_sequence.sale_details + 1
    IN  [db EXCEPT !.sale_details =
                       Append(@, [id |-> id, sale_id |-> saleId,
                                  product_id |-> item.id,
                                  quantity |-> item.quantity,
                                  price |-> item.price]),
                   !.sqlite_sequence.sale_details = id]

\* A decrement that stops at an empty stock.
UpdateStockFloored(db, quantity, productId) ==
    [db EXCEPT !.products =
        [p \in DOMAIN @ |->
            IF p = productId /\ @[p].stock >= quantity
            THEN [@[p] EXCEPT !.stock = @ - quantity]
            ELSE IF p = productId THEN [@[p] EXCEPT !.stock = 0]
            ELSE @[p]]]

\* UPDATE products SET stock = stock - ? WHERE id = ?
UpdateStock(db, quantity, productId) ==
    [db EXCEPT !.products =
        [p \in DOMAIN @ |->
            IF p = productId THEN [@[p] EXCEPT !.stock = @ - quantity] ELSE @[p]]]

\* A transaction whose failure undoes nothing.
RollbackDropped(db, snapshot) == db

\* ROLLBACK: the store as it was at BEGIN.
Rollback(db, snapshot) == snapshot

\* Where the transaction function goes after the header insert and after
\* each item: `for (const item of saleItems)` throws on a missing items
\* field, and the function returns once the items are exhausted.
ForOf(body, idx) ==
    IF "items" \notin DOMAIN body THEN "rollback"
    ELSE IF idx > Len(body.items) THEN "commit"
    ELSE "insertDetail"

\* An event loop that starts a handler while another one is suspended
\* inside its transaction.
EventLoopShared == server = "up"

\* Node runs a handler to completion: POST /api/sales has no await, so no
\* other handler or callback starts between BEGIN and COMMIT / ROLLBACK.
EventLoopFree == server = "up" /\ txn.pc = "idle"

TypeOK ==
    /\ server \in {"down", "up", "crashed"}
    /\ now \in 0..MaxClock
    /\ txn.pc \in {"idle", "insertSale", "insertDetail", "updateStock", "commit", "rollback"}

----------------------------------------------------------------------------
(* Process start: schema, seed, listen *)

SetStore(db) ==
    /\ products' = db.products
    /\ sales' = db.sales
    /\ sale_details' = db.sale_details
    /\ sqlite_sequence' = db.sqlite_sequence

IdleTxn ==
    [pc |-> "idle", body |-> [total |-> 0, items |-> <<>>], saleId |-> 0,
     idx |-> 1, snapshot |-> Store(NoRows, NoRows, NoRows, [sales |-> 0, sale_details |-> 0])]

IdlePrint == [pc |-> "idle"]

\* handleReprint at rest, with the text of the alert its last run ended in.
Reprint(alert) == [pc |-> "idle", alert |-> alert]

IdleReprint == Reprint("")

\* handlePayment at rest: the alert its last run showed, the sales its runs
\* created so far, and whether the last run got a sale created.
Payment(alert, paid, created) ==
    [pc |-> "idle", alert |-> alert, paid |-> paid, created |-> created]

IdlePayment == Payment("", {}, FALSE)

NoResponse == [kind |-> "none", status |-> 0]

Init ==
    /\ products = NoRows
    /\ sales = NoRows
    /\ sale_details = NoRows
    /\ sqlite_sequence = [sales |-> 0, sale_details |-> 0]
    /\ now = 0
    /\ server = "down"
    /\ txn = IdleTxn
    /\ last = NoResponse
    /\ ledger = <<>>
    /\ pr = IdlePrint
    /\ rp = IdleReprint
    /\ cart = <<>>
    /\ uiProducts = <<>>
    /\ loading = TRUE
    /\ hp = IdlePayment

StartServer ==
    /\ server \in {"down", "crashed"}
    /\ SetStore(Seed(CreateSchema(CurrentStore)))
    /\ server' = "up"
    /\ last' = [kind |-> "start", status |-> 0]
    /\ pr' = IdlePrint
    /\ UNCHANGED <<now, txn, ledger, rp>>

Tick ==
    /\ now < MaxClock
    /\ now' = now + 1
    /\ UNCHANGED <<store, server, txn, last, ledger, pr, rp>>

----------------------------------------------------------------------------
(* POST /api/sales *)

\* The handler up to BEGIN: the body is destructured, the statements are
\* prepared and the transaction function is entered.
SaleBegin(bodies) ==
    /\ EventLoopFree
    /\ Len(sales) < MaxSales
    /\ \E body \in bodies :
          txn' = [pc |-> "insertSale", body |-> body, saleId |-> 0, idx |-> 1,
                  snapshot |-> CurrentStore]
    /\ last' = NoResponse
    /\ UNCHANGED <<store, now, server, ledger, pr, rp>>

\* A create-sale request of any client.
ApiSale == SaleBegin(SaleBodies)

\* A create-sale request of a checkout.
CheckoutSale == SaleBegin(CheckoutBodies)

\* insertSale.run(saleTotal): a missing total cannot be bound.
SaleInsertSale ==
    /\ server = "up"
    /\ txn.pc = "insertSale"
    /\ \E ioError \in BOOLEAN :
          IF ioError \/ "total" \notin DOMAIN txn.body
          THEN /\ txn' = [txn EXCEPT !.pc = "rollback"]
               /\ UNCHANGED store
          ELSE /\ SetStore(InsertSale(CurrentStore, txn.body.total, now))
               /\ txn' = [txn EXCEPT !.saleId = sqlite_sequence.sales + 1,
                                     !.pc = ForOf(txn.body, 1)]
    /\ UNCHANGED <<now, server, last, ledger, pr, rp>>

\* insertDetail.run(saleId, item.id, item.quantity, item.price)
SaleInsertDetail ==
    /\ server = "up"
    /\ txn.pc = "insertDetail"
    /\ LET item == txn.body.items[txn.idx]
       IN  \E ioError \in BOOLEAN :
             IF ioError \/ ~ForeignKeyOk(CurrentStore, item)
             THEN /\ txn' = [txn EXCEPT !.pc = "rollback"]
                  /\ UNCHANGED store
             ELSE /\ SetStore(InsertDetail(CurrentStore, txn.saleId, item))
                  /\ txn' = [txn EXCEPT !.pc = "updateStock"]
    /\ UNCHANGED <<now, server, last, ledger, pr, rp>>

\* updateStock.run(item.quantity, item.id), then the next item
SaleUpdateStock ==
    /\ server = "up"
    /\ txn.pc = "updateStock"
    /\ LET item == txn.body.items[txn.idx]
       IN  \E ioError \in BOOLEAN :
             IF ioError
             THEN /\ txn' = [txn EXCEPT !.pc = "rollback"]
                  /\ UNCHANGED store
             ELSE /\ SetStore(UpdateStock(CurrentStore, item.quantity, item.id))
                  /\ txn' = [txn EXCEPT !.idx = @ + 1,
                                        !.pc = ForOf(txn.body, txn.idx + 1)]
    /\ UNCHANGED <<now, server, last, ledger, pr, rp>>

\* COMMIT, then res.json({ success: true, saleId })
SaleCommit ==
    /\ server = "up"
    /\ txn.pc = "commit"
    /\ \E ioError \in BOOLEAN :
          IF ioError
          THEN /\ txn' = [txn EXCEPT !.pc = "rollback"]
               /\ UNCHANGED <<last, ledger>>
          ELSE /\ txn' = IdleTxn
               /\ last' = [kind |-> "sale", status |-> 200,
                           body |-> [success |-> TRUE, saleId |-> txn.saleId]]
               /\ ledger' = Append(ledger, [saleId |-> txn.saleId, body |-> txn.body])
    /\ UNCHANGED <<store, now, server, pr, rp>>

\* The transaction function threw: ROLLBACK, rethrow, and the handler's
\* catch answers 500.
SaleRollback ==
    /\ server = "up"
    /\ txn.pc = "rollback"
    /\ SetStore(Rollback(CurrentStore, txn.snapshot))
    /\ txn' = IdleTxn
    /\ last' = [kind |-> "sale", status |-> 500,
                body |-> [success |-> FALSE, error |-> "Failed to process sale"]]
    /\ UNCHANGED <<now, server, ledger, pr, rp>>

----------------------------------------------------------------------------
(* GET /api/products, GET /api/sales, GET /api/sales/:id *)

\* SELECT * FROM products
SelectProducts(db) == db.products

\* COUNT(sd.id) of the LEFT JOIN, per sale
ItemCount(db, saleId) ==
    Cardinality({i \in DOMAIN db.sale_details : db.sale_details[i].sale_id = saleId})

RowOrders(n) ==
    {f \in [1..n -> 1..n] : \A i, j \in 1..n : i # j => f[i] # f[j]}

\* ORDER BY s.date DESC names no second key: every order of the rows in
\* which the dates do not increase is a result the query may give.
SelectSales(db) ==
    LET rows == [i \in DOMAIN db.sales |->
                    [id |-> db.sales[i].id, total |-> db.sales[i].total,
                     date |-> db.sales[i].date,
                     itemCount |-> ItemCount(db, db.sales[i].id)]]
        n == Len(rows)
    IN  {[i \in 1..n |-> rows[f[i]]] :
            f \in {g \in RowOrders(n) :
                     \A i, j \in 1..n : i < j => rows[g[i]].date >= rows[g[j]].date}}

\* SELECT p.name, sd.quantity, sd.price FROM sale_details sd
\* JOIN products p ON sd.product_id = p.id WHERE sd.sale_id = ?
SelectItems(db, saleId) ==
    LET joined == SelectSeq(db.sale_details,
                      LAMBDA sd : sd.sale_id = saleId /\ sd.product_id \in DOMAIN db.products)
    IN  [i \in DOMAIN joined |->
            [name |-> db.products[joined[i].product_id].name,
             quantity |-> joined[i].quantity,
             price |-> joined[i].price]]

\* A handler without the check of the row it looked up.
GetSaleDetailUnchecked(db, saleId) ==
    [kind |-> "detail", saleId |-> saleId, status |-> 200,
     body |-> [id |-> saleId, total |-> 0, date |-> 0,
               items |-> SelectItems(db, saleId)]]

\* The response of GET /api/sales/:id
GetSaleDetail(db, saleId) ==
    LET found == SelectSeq(db.sales, LAMBDA row : row.id = saleId)
    IN  IF found = <<>>
        THEN [kind |-> "detail", saleId |-> saleId, status |-> 404,
              body |-> [error |-> "Sale not found"]]
        ELSE [kind |-> "detail", saleId |-> saleId, status |-> 200,
              body |-> [id |-> found[1].id, total |-> found[1].total,
                        date |-> found[1].date,
                        items |-> SelectItems(db, saleId)]]

ListProducts ==
    /\ EventLoopFree
    /\ last' = [kind |-> "products", status |-> 200, body |-> SelectProducts(CurrentStore)]
    /\ UNCHANGED <<store, now, server, txn, ledger, pr, rp>>

ListSales ==
    /\ EventLoopFree
    /\ \E rows \in SelectSales(CurrentStore) :
          last' = [kind |-> "sales", status |-> 200, body |-> rows]
    /\ UNCHANGED <<store, now, server, txn, ledger, pr, rp>>

\* A get-sale-detail request of any client other than a running reprint.
SaleDetail ==
    /\ EventLoopFree
    /\ \E saleId \in SaleIdInputs : last' = GetSaleDetail(CurrentStore, saleId)
    /\ UNCHANGED <<store, now, server, txn, ledger, pr, rp>>

----------------------------------------------------------------------------
(* POST /api/print, POST /api/drawer *)

\* item.name.substring(0, 15) of the names of the catalog
Substring15(name) ==
    CASE name = "Impresora Termica 80mm"     -> "Impresora Termi"
      [] name = "Lector de Codigo de Barras" -> "Lector de Codig"
      [] name = "Cajon de Dinero RJ11"       -> "Cajon de Dinero"
      [] name = "Monitor Tactil 15.6"        -> "Monitor Tactil "
      [] name = "Terminal POS All-in-One"    -> "Terminal POS Al"
      [] name = "Rollo Papel Termico 80mm"   -> "Rollo Papel Ter"
      [] OTHER                               -> name

\* saleId.toString().padStart(6, '0'), as decimal digits
PadStart6(n) ==
    IF n >= 1000000 THEN <<n>>
    ELSE [i \in 1..6 |-> (n \div (10 ^ (6 - i))) % 10]

ReceiptHeader ==
    << [op |-> "font",  arg |-> "a"],
       [op |-> "align", arg |-> "ct"],
       [op |-> "style", arg |-> "b"],
       [op |-> "size",  arg |-> "2x2"],
       [op |-> "text",  arg |-> "BETTERS FABRICA"],
       [op |-> "text",  arg |-> "DE TECNOLOGIA S.A."],
       [op |-> "size",  arg |-> "1x1"],
       [op |-> "style", arg |-> "normal"],
       [op |-> "text",  arg |-> "RUC: 20123456789"],
       [op |-> "text",  arg |-> "Av. Tecnologica 123, Lima"],
       [op |-> "text",  arg |-> "--------------------------------"],
       [op |-> "align", arg |-> "lt"] >>

ReceiptTicket(saleId, date) ==
    << [op |-> "text", arg |-> "Ticket: #", ticket |-> PadStart6(saleId)],
       [op |-> "text", arg |-> "Fecha: ", date |-> date],
       [op |-> "text", arg |-> "--------------------------------"],
       [op |-> "tableCustom", arg |-> "header", cols |-> <<"Cant", "Producto", "Total">>] >>

\* One table row per item: quantity, name cut to 15, price * quantity
ReceiptRows(items) ==
    [i \in DOMAIN items |->
        [op |-> "tableCustom", arg |-> "row",
         quantity |-> items[i].quantity,
         name |-> Substring15(items[i].name),
         amount |-> items[i].price * items[i].quantity]]

ReceiptBeforeTotal ==
    << [op |-> "text",  arg |-> "--------------------------------"],
       [op |-> "align", arg |-> "rt"],
       [op |-> "size",  arg |-> "1x1"],
       [op |-> "style", arg |-> "b"] >>

ReceiptTotal(total) ==
    << [op |-> "text",  arg |-> "TOTAL: $", amount |-> total],
       [op |-> "style", arg |-> "normal"],
       [op |-> "align", arg |-> "ct"],
       [op |-> "text",  arg |-> "--------------------------------"],
       [op |-> "text",  arg |-> "Gracias por su compra!"],
       [op |-> "text",  arg |-> "Vuelva pronto"],
       [op |-> "feed",  arg |-> "3"],
       [op |-> "cut",   arg |-> ""],
       [op |-> "close", arg |-> ""] >>

\* The body of the open callback of POST /api/print: the directives it
\* hands to the printer in order, up to the first expression that throws
\* (saleId.toString(), items.forEach, total.toFixed on a missing field).
FormatReceipt(body, date) ==
    IF "saleId" \notin DOMAIN body
    THEN [threw |-> TRUE, directives |-> ReceiptHeader]
    ELSE IF "items" \notin DOMAIN body
    THEN [threw |-> TRUE,
          directives |-> ReceiptHeader \o ReceiptTicket(body.saleId, date)]
    ELSE IF "total" \notin DOMAIN body
    THEN [threw |-> TRUE,
          directives |-> ReceiptHeader \o ReceiptTicket(body.saleId, date)
                           \o ReceiptRows(body.items) \o ReceiptBeforeTotal]
    ELSE [threw |-> FALSE,
          directives |-> ReceiptHeader \o ReceiptTicket(body.saleId, date)
                           \o ReceiptRows(body.items) \o ReceiptBeforeTotal
                           \o ReceiptTotal(body.total)]

\* printer.cashdraw(2).close()
DrawerPulse == << [op |-> "cashdraw", arg |-> "2"], [op |-> "close", arg |-> ""] >>

\* The bodies a client other than the UI posts to /api/print.
ApiPrintBodies ==
    LET items == << [name |-> "Rollo Papel Termico 80mm", quantity |-> 3, price |-> 250] >>
    IN  { [saleId |-> 1, total |-> 750, items |-> items],
          [total |-> 750, items |-> items],
          [saleId |-> 1, items |-> items],
          [saleId |-> 1, total |-> 750] }

\* A callback that goes on to print whatever the error argument.
OpenCallbackIgnoresError(error) == "print"

\* What the open callback does with its error argument: it answers and
\* returns on an error, and prints otherwise.
OpenCallback(error) == IF error THEN "fail" ELSE "print"

\* The handler of POST /api/print up to device.open(callback): the
\* constructors or open may throw into the handler's catch.
PrintBegin(origin, body) ==
    /\ EventLoopFree
    /\ pr.pc = "idle"
    /\ \E throws \in BOOLEAN :
          IF throws
          THEN /\ last' = [kind |-> "print", origin |-> origin, request |-> body,
                           status |-> 500, opened |-> FALSE, directives |-> <<>>,
                           body |-> [success |-> FALSE, error |-> "Printer error"]]
               /\ pr' = pr
          ELSE /\ pr' = [pc |-> "opening", kind |-> "print", origin |-> origin,
                         body |-> body]
               /\ last' = last

ApiPrint ==
    /\ \E body \in ApiPrintBodies : PrintBegin("api", body)
    /\ UNCHANGED <<store, now, server, txn, ledger, rp>>

\* The open callback of POST /api/print. A throw inside it is outside the
\* handler's try: it is an uncaught exception, which ends the process with
\* the request unanswered.
PrintOpened ==
    /\ EventLoopFree
    /\ pr.pc = "opening"
    /\ pr.kind = "print"
    /\ \E error \in BOOLEAN :
          IF OpenCallback(error) = "fail"
          THEN /\ last' = [kind |-> "print", origin |-> pr.origin, request |-> pr.body,
                           status |-> 500, opened |-> ~error, directives |-> <<>>,
                           body |-> [success |-> FALSE, error |-> "Printer connection failed"]]
               /\ server' = server
          ELSE LET out == FormatReceipt(pr.body, now)
               IN  IF out.threw
                   THEN /\ last' = [kind |-> "print", origin |-> pr.origin,
                                    request |-> pr.body, status |-> 0,
                                    opened |-> ~error, directives |-> out.directives,
                                    body |-> [success |-> FALSE, error |-> "uncaughtException"]]
                        /\ server' = "crashed"
                   ELSE /\ last' = [kind |-> "print", origin |-> pr.origin,
                                    request |-> pr.body, status |-> 200,
                                    opened |-> ~error, directives |-> out.directives,
                                    body |-> [success |-> TRUE, message |-> "Printed successfully"]]
                        /\ server' = server
    /\ pr' = IdlePrint
    /\ rp' = IF pr.origin = "reprint" /\ server' = "up"
             THEN Reprint("Ticket enviado a imprimir")
             ELSE rp
    /\ UNCHANGED <<store, now, txn, ledger>>

DrawerBegin ==
    /\ EventLoopFree
    /\ pr.pc = "idle"
    /\ \E throws \in BOOLEAN :
          IF throws
          THEN /\ last' = [kind |-> "drawer", status |-> 500, opened |-> FALSE,
                           directives |-> <<>>,
                           body |-> [success |-> FALSE, error |-> "Drawer error"]]
               /\ pr' = pr
          ELSE /\ pr' = [pc |-> "opening", kind |-> "drawer"]
               /\ last' = last
    /\ UNCHANGED <<store, now, server, txn, ledger, rp>>

DrawerOpened ==
    /\ EventLoopFree
    /\ pr.pc = "opening"
    /\ pr.kind = "drawer"
    /\ \E error \in BOOLEAN :
          IF OpenCallback(error) = "fail"
          THEN last' = [kind |-> "drawer", status |-> 500, opened |-> ~error,
                        directives |-> <<>>,
                        body |-> [success |-> FALSE, error |-> "Printer connection failed"]]
          ELSE last' = [kind |-> "drawer", status |-> 200, opened |-> ~error,
                        directives |-> DrawerPulse,
                        body |-> [success |-> TRUE, message |-> "Drawer opened"]]
    /\ pr' = IdlePrint
    /\ UNCHANGED <<store, now, server, txn, ledger, rp>>

----------------------------------------------------------------------------
(* handleReprint of the UI *)

\* The operator confirms the reprint of a ticket: GET /api/sales/:id is sent.
ReprintConfirm ==
    /\ rp.pc = "idle"
    /\ \E saleId \in SaleIdInputs : rp' = [pc |-> "fetch", saleId |-> saleId]
    /\ UNCHANGED <<store, now, server, txn, last, ledger, pr>>

\* The server answers the reprint's get-sale-detail.
ReprintDetail ==
    /\ EventLoopFree
    /\ rp.pc = "fetch"
    /\ LET res == GetSaleDetail(CurrentStore, rp.saleId)
       IN  /\ last' = res
           /\ rp' = [pc |-> "fetched", saleId |-> rp.saleId, res |-> res]
    /\ UNCHANGED <<store, now, server, txn, ledger, pr>>

\* res.ok
Ok(res) == res.status >= 200 /\ res.status <= 299

\* A reprint that posts the sale without its line items.
ReprintRequestNoItems(res) ==
    IF ~Ok(res)
    THEN Reprint("Error al reimprimir ticket")
    ELSE [pc |-> "post",
          body |-> [saleId |-> res.body.id, total |-> res.body.total,
                    items |-> <<>>]]

\* What handleReprint does with the detail response: it throws into its
\* catch when the response is not ok, and otherwise posts the sale it was
\* given to /api/print.
ReprintRequest(res) ==
    IF ~Ok(res)
    THEN Reprint("Error al reimprimir ticket")
    ELSE [pc |-> "post",
          body |-> [saleId |-> res.body.id, total |-> res.body.total,
                    items |-> res.body.items]]

ReprintContinue ==
    /\ rp.pc = "fetched"
    /\ rp' = ReprintRequest(rp.res)
    /\ UNCHANGED <<store, now, server, txn, last, ledger, pr>>

\* The server takes the reprint's print request.
ReprintPrint ==
    /\ rp.pc = "post"
    /\ PrintBegin("reprint", rp.body)
    /\ rp' = IF pr'.pc = "opening"
             THEN [pc |-> "printing"]
             ELSE Reprint("Ticket enviado a imprimir")
    /\ UNCHANGED <<store, now, server, txn, ledger>>

\* fetch rejects while the server is not running: the catch of
\* handleReprint alerts and the run ends.
ReprintRejected ==
    /\ rp.pc \in {"fetch", "post", "printing"}
    /\ server # "up"
    /\ rp' = Reprint("Error al reimprimir ticket")
    /\ UNCHANGED <<store, now, server, txn, last, ledger, pr>>

\* The store and its handlers, under the requests of any client.
Next ==
    \/ StartServer /\ UNCHANGED ui
    \/ Tick /\ UNCHANGED ui
    \/ ApiSale /\ UNCHANGED ui
    \/ SaleInsertSale /\ UNCHANGED ui
    \/ SaleInsertDetail /\ UNCHANGED ui
    \/ SaleUpdateStock /\ UNCHANGED ui
    \/ SaleCommit /\ UNCHANGED ui
    \/ SaleRollback /\ UNCHANGED ui
    \/ ListProducts /\ UNCHANGED ui
    \/ ListSales /\ UNCHANGED ui
    \/ SaleDetail /\ UNCHANGED ui

Spec == Init /\ [][Next]_vars

\* The whole server with the printer and the UI's reprint, the sales being
\* those of checkouts.
NextPos ==
    \/ StartServer /\ UNCHANGED ui
    \/ Tick /\ UNCHANGED ui
    \/ CheckoutSale /\ UNCHANGED ui
    \/ SaleInsertSale /\ UNCHANGED ui
    \/ SaleInsertDetail /\ UNCHANGED ui
    \/ SaleUpdateStock /\ UNCHANGED ui
    \/ SaleCommit /\ UNCHANGED ui
    \/ SaleRollback /\ UNCHANGED ui
    \/ ListProducts /\ UNCHANGED ui
    \/ ListSales /\ UNCHANGED ui
    \/ SaleDetail /\ UNCHANGED ui
    \/ ApiPrint /\ UNCHANGED ui
    \/ PrintOpened /\ UNCHANGED ui
    \/ DrawerBegin /\ UNCHANGED ui
    \/ DrawerOpened /\ UNCHANGED ui
    \/ ReprintConfirm /\ UNCHANGED ui
    \/ ReprintDetail /\ UNCHANGED ui
    \/ ReprintContinue /\ UNCHANGED ui
    \/ ReprintPrint /\ UNCHANGED ui
    \/ ReprintRejected /\ UNCHANGED ui

SpecPos == Init /\ [][NextPos]_vars

----------------------------------------------------------------------------
(* The UI: catalog, cart and handlePayment *)

\* The products the operator picks: the terminal and the roll of paper.
ClickedProducts == {5, 6}

RollOnly == {6}

\* The rows of GET /api/products as the UI receives them.
ProductRows(db) ==
    [p \in DOMAIN SelectProducts(db) |->
        [id |-> p, name |-> db.products[p].name, price |-> db.products[p].price,
         stock |-> db.products[p].stock, barcode |-> db.products[p].barcode]]

\* { ...product, quantity }
CartItem(product, quantity) ==
    [id |-> product.id, name |-> product.name, price |-> product.price,
     stock |-> product.stock, barcode |-> product.barcode, quantity |-> quantity]

Max(a, b) == IF a >= b THEN a ELSE b

\* addToCart: one more of a product the cart holds, or a new entry of 1.
addToCart(prev, product) ==
    IF \E i \in DOMAIN prev : prev[i].id = product.id
    THEN [i \in DOMAIN prev |->
            IF prev[i].id = product.id
            THEN [prev[i] EXCEPT !.quantity = @ + 1]
            ELSE prev[i]]
    ELSE Append(prev, CartItem(product, 1))

removeFromCart(prev, productId) ==
    SelectSeq(prev, LAMBDA item : item.id # productId)

\* A quantity update without a floor.
updateQuantityUnfloored(prev, productId, delta) ==
    [i \in DOMAIN prev |->
        IF prev[i].id = productId
        THEN [prev[i] EXCEPT !.quantity = @ + delta]
        ELSE prev[i]]

\* updateQuantity: Math.max(1, item.quantity + delta) on the entry of the
\* product.
updateQuantity(prev, productId, delta) ==
    [i \in DOMAIN prev |->
        IF prev[i].id = productId
        THEN [prev[i] EXCEPT !.quantity = Max(1, @ + delta)]
        ELSE prev[i]]

\* A total that leaves the quantities out.
RECURSIVE TotalOfPrices(_)
TotalOfPrices(items) ==
    IF items = <<>> THEN 0
    ELSE Head(items).price + TotalOfPrices(Tail(items))

\* total: cart.reduce((sum, item) => sum + item.price * item.quantity, 0)
Total(items) == CartSum(items)

Quantity(items, productId) ==
    LET held == {i \in DOMAIN items : items[i].id = productId}
    IN  IF held = {} THEN 0 ELSE items[CHOOSE i \in held : TRUE].quantity

\* The create-sale request of another client: all the terminals of the
\* seed but one, at a total that is not the sum of its items.
OtherClientBodies ==
    LET x == [id |-> 5, quantity |-> SeedProducts[5].stock - 1, price |-> 54000]
    IN  {[total |-> CartSum(<<x>>) + 1, items |-> <<x>>]}

OtherSale ==
    /\ SaleBegin(OtherClientBodies)
    /\ UNCHANGED ui

\* The node process ends (between two handlers); a pending printer
\* connection ends with it.
StopServer ==
    /\ EventLoopFree
    /\ server' = "down"
    /\ pr' = IdlePrint
    /\ UNCHANGED <<store, now, txn, last, ledger, rp, ui>>

\* fetchProducts: the response of GET /api/products reaches the UI.
ProductsFetched ==
    /\ loading
    /\ ListProducts
    /\ uiProducts' = ProductRows(CurrentStore)
    /\ loading' = FALSE
    /\ UNCHANGED <<cart, hp>>

\* fetchProducts: the fetch rejects, the catalog shown stays.
ProductsRejected ==
    /\ loading
    /\ server # "up"
    /\ loading' = FALSE
    /\ UNCHANGED <<store, now, server, txn, last, ledger, pr, rp, cart, uiProducts, hp>>

\* The add button of a product: the products are shown when no fetch of
\* them is in flight, and the button is disabled when the stock is not
\* positive.
AddProduct(ids) ==
    /\ ~loading
    /\ \E p \in DOMAIN uiProducts :
          /\ uiProducts[p].id \in ids
          /\ uiProducts[p].stock > 0
          /\ Quantity(cart, uiProducts[p].id) < MaxQty
          /\ cart' = addToCart(cart, uiProducts[p])
    /\ UNCHANGED <<store, now, server, txn, last, ledger, pr, rp, uiProducts, loading, hp>>

AddToCart == AddProduct(ClickedProducts)

\* The operator adds rolls of paper only.
AddRoll == AddProduct(RollOnly)

\* The remove button of a cart entry.
RemoveFromCart ==
    /\ \E i \in DOMAIN cart : cart' = removeFromCart(cart, cart[i].id)
    /\ UNCHANGED <<store, now, server, txn, last, ledger, pr, rp, uiProducts, loading, hp>>

\* The minus and plus buttons of a cart entry.
UpdateQuantity ==
    /\ \E i \in DOMAIN cart, delta \in {-1, 1} :
          /\ cart[i].quantity + delta <= MaxQty
          /\ cart' = updateQuantity(cart, cart[i].id, delta)
    /\ UNCHANGED <<store, now, server, txn, last, ledger, pr, rp, uiProducts, loading, hp>>

\* clearCart: the button is disabled on an empty cart; setCart([]) if the
\* operator confirms.
ClearCart ==
    /\ cart # <<>>
    /\ \E confirmed \in BOOLEAN : cart' = IF confirmed THEN <<>> ELSE cart
    /\ UNCHANGED <<store, now, server, txn, last, ledger, pr, rp, uiProducts, loading, hp>>

\* handlePayment up to the first await: nothing on an empty cart; the run
\* keeps the total and the cart of the render it started in.
PaymentStart ==
    /\ hp.pc = "idle"
    /\ cart # <<>>
    /\ hp' = [pc |-> "postSale", total |-> Total(cart), items |-> cart,
              paid |-> hp.paid]
    /\ UNCHANGED <<store, now, server, txn, last, ledger, pr, rp, cart, uiProducts, loading>>

\* The server takes the run's POST /api/sales.
PaymentSale ==
    /\ hp.pc = "postSale"
    /\ SaleBegin({[total |-> hp.total, items |-> hp.items]})
    /\ hp' = [hp EXCEPT !.pc = "inSale"]
    /\ UNCHANGED <<cart, uiProducts, loading>>

\* await res.json(): the answer of the run's create-sale request, if the
\* handler answers in this step.
PaymentData ==
    /\ hp' = IF hp.pc = "inSale" /\ txn'.pc = "idle"
             THEN [pc |-> "gotSale", total |-> hp.total, items |-> hp.items,
                   paid |-> hp.paid, data |-> last'.body]
             ELSE hp
    /\ UNCHANGED <<cart, uiProducts, loading>>

\* if (data.success): on to the print request; the run ends otherwise.
PaymentContinue ==
    /\ hp.pc = "gotSale"
    /\ hp' = IF hp.data.success
             THEN [pc |-> "postPrint", total |-> hp.total, items |-> hp.items,
                   paid |-> hp.paid \cup {hp.data.saleId},
                   saleId |-> hp.data.saleId]
             ELSE Payment("", hp.paid, FALSE)
    /\ UNCHANGED <<store, now, server, txn, last, ledger, pr, rp, cart, uiProducts, loading>>

\* The server takes the run's POST /api/print.
PaymentPrint ==
    /\ hp.pc = "postPrint"
    /\ PrintBegin("payment", [saleId |-> hp.saleId, total |-> hp.total,
                              items |-> hp.items])
    /\ hp' = [hp EXCEPT !.pc = IF pr'.pc = "opening" THEN "printing" ELSE "printed"]
    /\ UNCHANGED <<store, now, server, txn, ledger, rp, cart, uiProducts, loading>>

\* The open callback of a print request; the run's own fetch resolves on
\* its answer, whatever the status.
PaymentPrinted ==
    /\ PrintOpened
    /\ hp' = IF hp.pc = "printing" /\ pr.origin = "payment" /\ server' = "up"
             THEN [hp EXCEPT !.pc = "printed"]
             ELSE hp
    /\ UNCHANGED <<cart, uiProducts, loading>>

\* After the print request: alert, setCart([]), fetchProducts().
PaymentFinish ==
    /\ hp.pc = "printed"
    /\ hp' = Payment("Venta completada con éxito", hp.paid, TRUE)
    /\ cart' = <<>>
    /\ loading' = TRUE
    /\ UNCHANGED <<store, now, server, txn, last, ledger, pr, rp, uiProducts>>

\* A fetch of the run rejects (no server to answer): the catch block.
PaymentRejected ==
    /\ hp.pc \in {"postSale", "postPrint", "printing"}
    /\ server # "up"
    /\ hp' = Payment("Error al procesar el pago", hp.paid, hp.pc # "postSale")
    /\ UNCHANGED <<store, now, server, txn, last, ledger, pr, rp, cart, uiProducts, loading>>

\* The UI's cart and checkout against a server that stays up, and the sale
\* of another client.
NextCart ==
    \/ StartServer /\ UNCHANGED ui
    \/ OtherSale
    \/ ProductsFetched
    \/ ProductsRejected
    \/ AddToCart
    \/ RemoveFromCart
    \/ UpdateQuantity
    \/ ClearCart
    \/ PaymentStart
    \/ PaymentSale
    \/ SaleInsertSale /\ UNCHANGED ui
    \/ SaleInsertDetail /\ UNCHANGED ui
    \/ SaleUpdateStock /\ UNCHANGED ui
    \/ SaleCommit /\ PaymentData
    \/ SaleRollback /\ PaymentData
    \/ PaymentContinue
    \/ PaymentPrint
    \/ PaymentPrinted
    \/ PaymentFinish

SpecCart == Init /\ [][NextCart]_vars

\* The UI's checkout of rolls of paper against a server that may stop and
\* start again.
NextCheckout ==
    \/ StartServer /\ UNCHANGED ui
    \/ StopServer
    \/ ProductsFetched
    \/ ProductsRejected
    \/ AddRoll
    \/ RemoveFromCart
    \/ UpdateQuantity
    \/ ClearCart
    \/ PaymentStart
    \/ PaymentSale
    \/ SaleInsertSale /\ UNCHANGED ui
    \/ SaleInsertDetail /\ UNCHANGED ui
    \/ SaleUpdateStock /\ UNCHANGED ui
    \/ SaleCommit /\ PaymentData
    \/ SaleRollback /\ PaymentData
    \/ PaymentContinue
    \/ PaymentPrint
    \/ PaymentPrinted
    \/ PaymentFinish
    \/ PaymentRejected

SpecCheckout == Init /\ [][NextCheckout]_vars

----------------------------------------------------------------------------
(* Properties *)

\* The store as of the last COMMIT: the writes of a transaction that is
\* still running are not part of it.
Committed == IF txn.pc = "idle" THEN CurrentStore ELSE txn.snapshot

SaleIds(db) == {db.sales[i].id : i \in DOMAIN db.sales}

\* The handler of POST /api/sales answers in this step.
SaleAnswered == txn.pc # "idle" /\ txn'.pc = "idle"

RECURSIVE Sold(_, _)
\* The quantity of product p in a list of items
Sold(items, p) ==
    IF items = <<>> THEN 0
    ELSE (IF Head(items).id = p THEN Head(items).quantity ELSE 0) + Sold(Tail(items), p)

Distinct(items) == \A i, j \in DOMAIN items : i # j => items[i].id # items[j].id

\* The header, the N line items and the N stock decrements of one sale, on
\* top of the store `before`.
Written(before, after, saleId, body) ==
    LET n == Len(body.items)
        s0 == Len(before.sales)
        d0 == Len(before.sale_details)
    IN  /\ Len(after.sales) = s0 + 1
        /\ SubSeq(after.sales, 1, s0) = before.sales
        /\ after.sales[s0 + 1].id = saleId
        /\ after.sales[s0 + 1].total = body.total
        /\ Len(after.sale_details) = d0 + n
        /\ SubSeq(after.sale_details, 1, d0) = before.sale_details
        /\ \A i \in 1..n :
              LET row == after.sale_details[d0 + i]
              IN  /\ row.sale_id = saleId
                  /\ row.product_id = body.items[i].id
                  /\ row.quantity = body.items[i].quantity
                  /\ row.price = body.items[i].price
        /\ DOMAIN after.products = DOMAIN before.products
        /\ \A p \in DOMAIN before.products :
              after.products[p].stock = before.products[p].stock - Sold(body.items, p)

\* C1: Sale Commit is all-or-nothing. When POST /api/sales answers a failure,
\* whatever the step that failed, products, sales and sale_details (and the
\* id counters) are exactly what they were when the request began; when it
\* answers success, the header, all N line items and all N stock decrements
\* are written.
C1_AllOrNothing ==
    [][SaleAnswered =>
         IF last'.status = 200
         THEN /\ last'.body.success
              /\ last'.body.saleId = txn.saleId
              /\ Written(txn.snapshot, CurrentStore', txn.saleId, txn.body)
         ELSE /\ last'.status = 500
              /\ ~last'.body.success
              /\ CurrentStore' = txn.snapshot]_vars

\* A sale is failing after its header, a line item and a stock decrement
\* were written.
C1_Witness ==
    /\ txn.pc = "rollback"
    /\ Len(sales) > Len(txn.snapshot.sales)
    /\ Len(sale_details) > Len(txn.snapshot.sale_details)
    /\ products # txn.snapshot.products

\* C2: after a successful create-sale whose items name distinct products,
\* the stock of every product in the sale is its stock before the request
\* minus the quantity sold, below zero when the quantity exceeds the stock,
\* and every product not in the sale, and the name and price of every
\* product, are unchanged.
C2_StockDecrement ==
    [][(SaleAnswered /\ last'.status = 200 /\ Distinct(txn.body.items)) =>
         LET before == txn.snapshot.products
             items == txn.body.items
             inSale == {items[i].id : i \in DOMAIN items}
         IN  /\ \A i \in DOMAIN items :
                  products'[items[i].id].stock =
                      before[items[i].id].stock - items[i].quantity
             /\ \A p \in DOMAIN before :
                  /\ p \notin inSale => products'[p] = before[p]
                  /\ products'[p].name = before[p].name
                  /\ products'[p].price = before[p].price]_vars

\* The first sale, of 3 rolls (stock 500) and 16 terminals (stock 15), is
\* answered: 497 rolls and -1 terminals are left.
C2_Witness ==
    /\ last.kind = "sale"
    /\ last.status = 200
    /\ Len(ledger) = 1
    /\ Len(ledger[1].body.items) = 2
    /\ products[6].stock = 497
    /\ products[5].stock = -1

LedgerEntry(saleId) ==
    CHOOSE e \in {ledger[i] : i \in DOMAIN ledger} : e.saleId = saleId

\* The rows are the entries of the cart, one for one, with the quantity
\* and unit price of the entry.
SameEntries(rows, items) ==
    /\ Len(rows) = Len(items)
    /\ \E f \in RowOrders(Len(items)) :
          \A i \in DOMAIN items :
             /\ rows[i].quantity = items[f[i]].quantity
             /\ rows[i].price = items[f[i]].price

\* C3: round trip. get-sale-detail on the id a create-sale returned answers
\* the total the caller supplied and one line item per entry of the cart,
\* with the entry's quantity and unit price, whatever other sales were
\* committed before or after it.
C3_RoundTrip ==
    (last.kind = "detail" /\ \E i \in DOMAIN ledger : ledger[i].saleId = last.saleId) =>
        /\ last.status = 200
        /\ last.body.id = last.saleId
        /\ last.body.total = LedgerEntry(last.saleId).body.total
        /\ SameEntries(last.body.items, LedgerEntry(last.saleId).body.items)

\* The detail of the first sale, of two items and a total that is not their
\* sum, is fetched after a second sale was committed.
C3_Witness ==
    /\ last.kind = "detail"
    /\ last.status = 200
    /\ last.saleId = 1
    /\ Len(ledger) = 2
    /\ Len(last.body.items) = 2
    /\ last.body.total # CartSum(ledger[1].body.items)

\* C4: list-sales returns every sale exactly once, by descending timestamp,
\* and sales of the same timestamp in their insertion order (ascending id).
C4_TiesByInsertionOrder ==
    last.kind = "sales" =>
        /\ Len(last.body) = Len(sales)
        /\ {last.body[i].id : i \in DOMAIN last.body} = SaleIds(CurrentStore)
        /\ \A i, j \in DOMAIN last.body :
              i < j =>
                 \/ last.body[i].date > last.body[j].date
                 \/ /\ last.body[i].date = last.body[j].date
                    /\ last.body[i].id < last.body[j].id

RECURSIVE LedgerSold(_, _)
\* The quantity of product p in the sales answered success
LedgerSold(entries, p) ==
    IF entries = <<>> THEN 0
    ELSE Sold(Head(entries).body.items, p) + LedgerSold(Tail(entries), p)

RECURSIVE LedgerItems(_)
LedgerItems(entries) ==
    IF entries = <<>> THEN 0
    ELSE Len(Head(entries).body.items) + LedgerItems(Tail(entries))

\* The stock left of the seed after the sales answered success, one after
\* the other
SerialStock(p) == SeedProducts[p].stock - LedgerSold(ledger, p)

\* C9: create-sale requests are serialized as whole units. Between
\* handlers the store is the seed with the committed sales applied one
\* after the other (every stock is the seed's minus all quantities sold, no
\* decrement lost, and every sale has all its line items), and every
\* list-products, list-sales and get-sale-detail response shows exactly the
\* committed sales, each with every line item and stock decrement.
C9_Serialized ==
    /\ (txn.pc = "idle" /\ products # NoRows) =>
          /\ \A p \in DOMAIN products : products[p].stock = SerialStock(p)
          /\ Len(sales) = Len(ledger)
          /\ Len(sale_details) = LedgerItems(ledger)
          /\ \A i \in DOMAIN ledger :
                /\ sales[i].id = ledger[i].saleId
                /\ sales[i].total = ledger[i].body.total
                /\ ItemCount(CurrentStore, ledger[i].saleId) = Len(ledger[i].body.items)
    /\ last.kind = "products" =>
          \A p \in DOMAIN last.body : last.body[p].stock = SerialStock(p)
    /\ last.kind = "sales" =>
          /\ Len(last.body) = Len(ledger)
          /\ \A i \in DOMAIN last.body :
                \E k \in DOMAIN ledger :
                   /\ ledger[k].saleId = last.body[i].id
                   /\ ledger[k].body.total = last.body[i].total
                   /\ Len(ledger[k].body.items) = last.body[i].itemCount
    /\ last.kind = "detail" =>
          IF last.status = 200
          THEN \E k \in DOMAIN ledger :
                  /\ ledger[k].saleId = last.saleId
                  /\ Len(ledger[k].body.items) = Len(last.body.items)
          ELSE \A k \in DOMAIN ledger : ledger[k].saleId # last.saleId

\* list-products after two sales of 3 rolls each: 494 of 500 are left.
C9_Witness ==
    /\ last.kind = "products"
    /\ Len(ledger) = 2
    /\ last.body[6].stock = 494
    /\ Len(sale_details) >= 3

\* The table rows among the directives handed to the printer
PrintedRows(directives) ==
    SelectSeq(directives, LAMBDA d : d.op = "tableCustom" /\ d.arg = "row")

Exists(db, saleId) == saleId \in SaleIds(db)

\* A receipt was printed for a sale of the store, and its rows are those of
\* the sale's stored line items.
PrintsStored(response) ==
    PrintedRows(response.directives) =
        ReceiptRows(SelectItems(Committed, response.request.saleId))

\* C5 as stated: whatever items the print request carries, a receipt printed
\* for a sale shows the line items stored for that sale id.
C5_PrintsStoredNotSupplied ==
    (/\ last.kind = "print"
     /\ last.status = 200
     /\ Exists(Committed, last.request.saleId)) => PrintsStored(last)

\* C5, amended: a reprint through handleReprint posts to print-receipt the
\* line items get-sale-detail returned for the sale id being reprinted, and
\* the receipt printed shows exactly the line items stored for that sale;
\* the items printed are the ones the print request carries.
C5_ReprintPrintsStored ==
    /\ rp.pc = "post" =>
          /\ Exists(Committed, rp.body.saleId)
          /\ rp.body.items = SelectItems(Committed, rp.body.saleId)
    /\ (pr.pc = "opening" /\ pr.kind = "print" /\ pr.origin = "reprint") =>
          pr.body.items = SelectItems(Committed, pr.body.saleId)
    /\ (last.kind = "print" /\ last.status = 200) =>
          /\ PrintedRows(last.directives) = ReceiptRows(last.request.items)
          /\ last.origin = "reprint" => PrintsStored(last)

\* A reprint of a sale of two line items was printed.
C5_Witness ==
    /\ last.kind = "print"
    /\ last.origin = "reprint"
    /\ last.status = 200
    /\ Len(PrintedRows(last.directives)) = 2
    /\ rp.alert = "Ticket enviado a imprimir"

\* C6: get-sale-detail for an id that matches no sale answers 404, and a
\* reprint that receives it posts no print-receipt request: every print
\* request of a reprint, pending or answered, is for a sale of the store.
C6_NotFoundNoPrint ==
    /\ last.kind = "detail" =>
          (last.status = 404 <=> ~Exists(Committed, last.saleId))
    /\ rp.pc = "fetched" =>
          /\ ~Exists(Committed, rp.saleId) => rp.res.status = 404
          /\ rp.res.status # 404 => rp.res.body.id = rp.saleId
    /\ rp.pc = "post" => Exists(Committed, rp.body.saleId)
    /\ (pr.pc = "opening" /\ pr.kind = "print" /\ pr.origin = "reprint") =>
          Exists(Committed, pr.body.saleId)
    /\ (last.kind = "print" /\ last.origin = "reprint") =>
          Exists(Committed, last.request.saleId)

\* A reprint of an id without a sale was answered 404 and ended in the
\* error alert, with no print request pending.
C6_Witness ==
    /\ last.kind = "detail"
    /\ last.status = 404
    /\ rp.pc = "idle"
    /\ rp.alert = "Error al reimprimir ticket"
    /\ pr.pc = "idle"
    /\ server = "up"

\* C7: a print-receipt or open-drawer request whose printer connection could
\* not be opened is answered with a failure and has emitted no directive;
\* every request that emitted a directive had its connection opened.
C7_NoPrintWithoutOpen ==
    last.kind \in {"print", "drawer"} =>
        /\ last.directives # <<>> => last.opened
        /\ ~last.opened =>
              /\ last.status = 500
              /\ ~last.body.success
              /\ last.body.error \in {"Printer connection failed", "Printer error", "Drawer error"}
              /\ last.directives = <<>>

\* A print-receipt request was answered "Printer connection failed".
C7_Witness ==
    /\ last.kind = "print"
    /\ ~last.opened
    /\ last.body.error = "Printer connection failed"
    /\ last.directives = <<>>

\* C8: every failure while handling create-sale, print-receipt or open-drawer,
\* a body with missing fields included, is answered with one JSON failure
\* payload, and none ends the server process or leaves the request
\* unanswered.
C8_FailuresAnswered ==
    /\ server # "crashed"
    /\ last.kind \in {"sale", "print", "drawer"} =>
          \/ last.status = 200 /\ last.body.success
          \/ last.status = 500 /\ ~last.body.success

\* C10: a committed sale is immutable. No step changes or deletes a row of
\* sales or sale_details that was committed, and no step adds a line item to
\* a sale that was committed.
C10_Immutable ==
    [][LET before == Committed
       IN  /\ Len(sales') >= Len(before.sales)
           /\ SubSeq(sales', 1, Len(before.sales)) = before.sales
           /\ Len(sale_details') >= Len(before.sale_details)
           /\ SubSeq(sale_details', 1, Len(before.sale_details)) = before.sale_details
           /\ \A i \in DOMAIN sale_details' :
                 i > Len(before.sale_details) =>
                    ~Exists(before, sale_details'[i].sale_id)]_vars

\* The server was started again on a store that holds two sales with line
\* items.
C10_Witness ==
    /\ last.kind = "start"
    /\ Len(sales) = 2
    /\ Len(sale_details) >= 2

\* The stored line items of a sale
StoredItems(db, saleId) ==
    SelectSeq(db.sale_details, LAMBDA row : row.sale_id = saleId)

\* C11: for every sale a handlePayment run created, the stored total is the
\* sum over its stored line items of unit price times quantity (in cents),
\* whatever addToCart, updateQuantity and removeFromCart made of the cart
\* before and during the run.
C11_TotalIsSumOfItems ==
    \A id \in hp.paid :
       \E i \in DOMAIN Committed.sales :
          /\ Committed.sales[i].id = id
          /\ Committed.sales[i].total = CartSum(StoredItems(Committed, id))

\* A checkout of two products, one of them at a quantity above 1, next to
\* a sale of another client whose total is not the sum of its items.
C11_Witness ==
    /\ \E id \in hp.paid :
          /\ Len(StoredItems(Committed, id)) > 1
          /\ \E i \in DOMAIN StoredItems(Committed, id) :
                StoredItems(Committed, id)[i].quantity > 1
    /\ \E i \in DOMAIN Committed.sales :
          Committed.sales[i].total
              # CartSum(StoredItems(Committed, Committed.sales[i].id))

\* C12: in every reachable cart every entry has a quantity of at least 1:
\* the minus button at quantity 1 leaves it at 1 and takes 1 off a larger
\* one; and no bound of the product's stock applies: the plus button and
\* addToCart on a product the cart holds add 1 whatever the stock.
C12_QuantityAtLeastOne ==
    \A i \in DOMAIN cart :
       LET item == cart[i]
       IN  /\ item.quantity >= 1
           /\ Quantity(cart, item.id) = item.quantity
           /\ Quantity(updateQuantity(cart, item.id, -1), item.id)
                 = IF item.quantity = 1 THEN 1 ELSE item.quantity - 1
           /\ Quantity(updateQuantity(cart, item.id, 1), item.id) = item.quantity + 1
           /\ Quantity(addToCart(cart, item), item.id) = item.quantity + 1

\* A cart with more of a product than the stock the UI showed of it, and
\* an entry of quantity 1.
C12_Witness ==
    /\ \E i \in DOMAIN cart : cart[i].quantity > cart[i].stock
    /\ \E i \in DOMAIN cart : cart[i].quantity = 1

\* A handlePayment run ends in this step, after its create-sale request
\* was answered success.
PaymentEndsWithSale == hp.pc # "idle" /\ hp'.pc = "idle" /\ hp'.created

\* C13: the cart is discarded on checkout. Whenever a handlePayment run
\* got its sale committed by create-sale, the cart is empty when the run
\* ends, whatever became of its print-receipt request.
C13_CartDiscarded == [][PaymentEndsWithSale => cart' = <<>>]_vars

====
